---- MODULE Spec2Model ----
(***************************************************************************)
(* libbitcoin-watcher: the transaction database (tx_db) and the            *)
(* transaction updater (tx_updater), modelled from the sources.            *)
(*                                                                         *)
(*   Spec      the updater driving the store through the codec             *)
(*   SpecSer   tx_db::serialize / tx_db::load on bounded stores            *)
(*   SpecUtxo  tx_db::get_utxos, alone and racing with store mutators      *)
(***************************************************************************)
EXTENDS Integers, Sequences, FiniteSets, Bags, TLC

(***************************************************************************)
(* Bounds of the model.                                                    *)
(***************************************************************************)
\* Block heights the server reports and rows carry: 0..MaxHeight.
MaxHeight == 2
\* Wall-clock seconds (time(nullptr)): 0..MaxTime.
MaxTime == 2
\* Codec requests in flight at once.
MaxInflight == 3
\* Steady-clock seconds: 0..MaxClock.
MaxClock == 30
\* How long the steady clock runs while the polling schedule is observed.
MaxWakeClock == 60

(***************************************************************************)
(* The transactions of the model.  A transaction is its inputs (each the   *)
(* output point it spends and the address its script decodes to) and its   *)
(* outputs (value, and the address the script decodes to; NoAddr when      *)
(* bc::extract fails).  Output indices are 0-based as in the source;       *)
(* outputs[i + 1] is the output of index i.                                *)
(***************************************************************************)
NoAddr == "none"
Addresses == {"A", "B"}
TxHashes == {1, 2, 3}
null_hash == 0

Point(h, i) == [hash |-> h, index |-> i]
In(h, i, a) == [previous_output |-> Point(h, i), addr |-> a]
Out(v, a) == [value |-> v, addr |-> a]

Tx(h) ==
    CASE h = 1 -> [inputs |-> << >>,
                   outputs |-> <<Out(5, "A"), Out(7, "B")>>]
      [] h = 2 -> [inputs |-> <<In(1, 0, "A")>>,
                   outputs |-> <<Out(4, "B")>>]
      [] h = 3 -> [inputs |-> <<In(1, 1, "B"), In(2, 0, NoAddr)>>,
                   outputs |-> <<Out(3, NoAddr), Out(1, "A")>>]

hash_transaction(tx) == CHOOSE h \in TxHashes : Tx(h) = tx

tx_state == {"unsent", "unconfirmed", "confirmed"}

(***************************************************************************)
(* State.                                                                  *)
(***************************************************************************)
VARIABLES
    \* tx_db
    rows_,                \* tx hash -> tx_row
    last_height_,
    now,                  \* time(nullptr)
    \* tx_updater
    watch_rows_,          \* tx_updater::rows_: address -> address_row
    failed_,
    queued_queries_,
    queued_get_indices_,
    last_wakeup_,
    clock,                \* std::chrono::steady_clock::now()
    started,              \* tx_updater::start() has run
    \* obelisk_codec: the requests whose completion is pending
    inflight,
    \* what the last operation did
    lastOp,               \* its name and arguments
    ret,                  \* its return value
    calls,                \* the codec requests and sink callbacks it made
    failure,              \* the BITCOIN_ASSERT that aborted the process
    \* persistence
    blob,                 \* the bytes of the last serialize()
    saved,                \* the store those bytes were written from
    \* a thread inside get_utxos(addresses)
    q_pc, q_addrs, q_raw

dbVars == <<rows_, last_height_, now>>
updVars == <<watch_rows_, failed_, queued_queries_, queued_get_indices_,
             last_wakeup_, clock, started>>
obsVars == <<lastOp, ret, calls, failure>>
serVars == <<blob, saved>>
qVars == <<q_pc, q_addrs, q_raw>>
vars == <<rows_, last_height_, now, watch_rows_, failed_, queued_queries_,
          queued_get_indices_, last_wakeup_, clock, started, inflight, lastOp, ret,
          calls, failure, blob, saved, q_pc, q_addrs, q_raw>>

NoFailure == "none"
EmptyRows == [h \in {} |-> 0]

(***************************************************************************)
(* tx_db: rows and queries.                                                *)
(***************************************************************************)
tx_row(tx, state, block_height, timestamp, need_check) ==
    [tx |-> tx, state |-> state, block_height |-> block_height,
     timestamp |-> timestamp, need_check |-> need_check]

has_tx(rs, tx_hash) == tx_hash \in DOMAIN rs

get_tx_height(rs, tx_hash) ==
    IF tx_hash \notin DOMAIN rs THEN 0
    ELSE IF rs[tx_hash].state # "confirmed" THEN 0
    ELSE rs[tx_hash].block_height

\* The orders in which a range-for over the unordered_map can visit the rows.
Orders(S) ==
    {s \in [1..Cardinality(S) -> S] : \A i, j \in DOMAIN s : i # j => s[i] # s[j]}

\* One fixed visiting order, for the loops whose effect does not depend on it.
SomeOrder(S) == CHOOSE s \in Orders(S) : TRUE

\* A comparison that orders the points by hash alone.
point_cmp_hash(a, b) == a.hash < b.hash

\* get_utxos()::point_cmp
point_cmp(a, b) ==
    IF a.hash = b.hash THEN a.index < b.index ELSE a.hash < b.hash

\* std::set<bc::output_point, point_cmp>::find: an element neither side of
\* which orders before the other.
set_find(s, p) == \E e \in s : ~point_cmp(e, p) /\ ~point_cmp(p, e)

\* "Build a list of spent outputs"
spent_points(rs) ==
    UNION {{rs[h].tx.inputs[k].previous_output : k \in DOMAIN rs[h].tx.inputs} :
              h \in DOMAIN rs}

RECURSIVE unspent_of_row(_, _, _, _)
unspent_of_row(rs, spends, h, i) ==
    IF i >= Len(rs[h].tx.outputs) THEN << >>
    ELSE LET point == Point(h, i)
             rest == unspent_of_row(rs, spends, h, i + 1)
         IN IF ~set_find(spends, point)
            THEN <<[point |-> point, value |-> rs[h].tx.outputs[i + 1].value]>>
                 \o rest
            ELSE rest

RECURSIVE utxo_scan(_, _, _)
utxo_scan(rs, spends, order) ==
    IF order = << >> THEN << >>
    ELSE unspent_of_row(rs, spends, Head(order), 0)
         \o utxo_scan(rs, spends, Tail(order))

\* tx_db::get_utxos(), the rows visited in the given order
get_utxos(rs, order) == utxo_scan(rs, spent_points(rs), order)

\* tx_db::get_utxos(addresses), second critical section: the filter over raw.
\* asserted: the index in raw of the first utxo whose row is gone (0 if none).
filter_missing(rs, raw) ==
    IF \E k \in DOMAIN raw : raw[k].point.hash \notin DOMAIN rs
    THEN CHOOSE k \in DOMAIN raw :
            /\ raw[k].point.hash \notin DOMAIN rs
            /\ \A j \in 1..(k - 1) : raw[j].point.hash \in DOMAIN rs
    ELSE 0

RECURSIVE filter_utxos(_, _, _)
filter_utxos(rs, raw, addresses) ==
    IF raw = << >> THEN << >>
    ELSE LET utxo == Head(raw)
             output == rs[utxo.point.hash].tx.outputs[utxo.point.index + 1]
             rest == filter_utxos(rs, Tail(raw), addresses)
         IN IF output.addr # NoAddr /\ output.addr \in addresses
            THEN <<utxo>> \o rest
            ELSE rest

(***************************************************************************)
(* tx_db: mutators.                                                        *)
(***************************************************************************)
\* tx_db::check_fork: both loops run over copies of the rows ("for (auto
\* row: rows_)"), so the need_check it sets is set on the copy.
prev_height(rs, height) ==
    LET below == {rs[h].block_height : h \in
                     {x \in DOMAIN rs : /\ rs[x].state = "confirmed"
                                        /\ rs[x].block_height < height}}
                 \cup {0}
    IN CHOOSE b \in below : \A c \in below : c <= b

\* What the second loop of check_fork assigns, row by row.
check_fork_marked(rs, height) ==
    [h \in DOMAIN rs |->
        IF rs[h].state = "confirmed" /\ rs[h].block_height = prev_height(rs, height)
        THEN [rs[h] EXCEPT !.need_check = TRUE]
        ELSE rs[h]]

\* The rows of the store after check_fork: the loop variable is a copy, the
\* marked copies are dropped at the end of each iteration.
check_fork(rs, height) ==
    LET copies == check_fork_marked(rs, height)
    IN rs

\* tx_db::insert
insert_ok(rs, tx) == hash_transaction(tx) \notin DOMAIN rs

\* An insert that stomps the row the hash already has.
insert_stomp(rs, tx, state, t) ==
    [h \in DOMAIN rs \cup {hash_transaction(tx)} |->
        IF h = hash_transaction(tx) THEN tx_row(tx, state, 0, t, FALSE) ELSE rs[h]]

insert(rs, tx, state, t) ==
    IF insert_ok(rs, tx)
    THEN rs @@ (hash_transaction(tx) :> tx_row(tx, state, 0, t, FALSE))
    ELSE rs

\* tx_db::confirmed, the row present
confirmed(rs, tx_hash, block_height) ==
    LET row == rs[tx_hash]
        checked == IF row.state = "confirmed" /\ row.block_height # block_height
                   THEN check_fork(rs, row.block_height)
                   ELSE rs
    IN [checked EXCEPT ![tx_hash].state = "confirmed",
                       ![tx_hash].block_height = block_height]

\* A confirmed that runs check_fork for every row it finds confirmed.
confirmed_check_fork_always(rs, tx_hash, block_height) ==
    LET row == rs[tx_hash]
    IN IF row.state = "confirmed"
       THEN <<[height |-> row.block_height, rows |-> rs]>>
       ELSE << >>

\* tx_db::confirmed, the row present: the calls of check_fork it makes, each
\* with its argument and the rows as check_fork finds them.
confirmed_check_fork(rs, tx_hash, block_height) ==
    LET row == rs[tx_hash]
    IN IF row.state = "confirmed" /\ row.block_height # block_height
       THEN <<[height |-> row.block_height, rows |-> rs]>>
       ELSE << >>

\* tx_db::unconfirmed, the row present
unconfirmed(rs, tx_hash) ==
    LET row == rs[tx_hash]
        checked == IF row.state = "confirmed"
                   THEN check_fork(rs, row.block_height)
                   ELSE rs
    IN [checked EXCEPT ![tx_hash].state = "unconfirmed"]

\* tx_db::forget
forget(rs, tx_hash) == [h \in DOMAIN rs \ {tx_hash} |-> rs[h]]

\* tx_db::reset_timestamp
reset_timestamp(rs, tx_hash, t) ==
    IF tx_hash \in DOMAIN rs THEN [rs EXCEPT ![tx_hash].timestamp = t] ELSE rs

(***************************************************************************)
(* tx_db: the serialized form.  A blob is a sequence of bytes.             *)
(***************************************************************************)
\* The constants of "Serialization stuff", as their hexadecimal digits pairs,
\* most significant first: 0x3eab61c3, 0xfecdb760 (both exceed 32-bit
\* integers as numbers).
old_serial_magic == <<62, 171, 97, 195>>
serial_magic == <<254, 205, 183, 96>>
serial_tx == 66

\* The seconds an unconfirmed row may stay unseen: the store of the model is
\* constructed as tx_db(1).
unconfirmed_timeout_ == 1

\* sizeof(bc::hash_digest)
hash_size == 32

\* serializer::write_4_bytes / deserializer::read_4_bytes: little-endian.
write_4_bytes(v) == <<v[4], v[3], v[2], v[1]>>
read_4_bytes(b) == <<b[4], b[3], b[2], b[1]>>

\* write_8_bytes / read_8_bytes: little-endian, of values below 2^31.
write_8_bytes(n) ==
    <<n % 256, (n \div 256) % 256, (n \div 65536) % 256,
      (n \div 16777216) % 256, 0, 0, 0, 0>>
read_8_bytes(b) == b[1] + 256 * b[2] + 65536 * b[3] + 16777216 * b[4]

\* A 4-byte little-endian index (output_point::index).
write_index(n) == <<n % 256, (n \div 256) % 256, 0, 0>>
read_index(b) == b[1] + 256 * b[2]

\* write_hash / read_hash: hash_size bytes; the hash h of the model is the
\* digest whose first byte is h and whose other bytes are 0.
write_hash(h) == [i \in 1..hash_size |-> IF i = 1 THEN h ELSE 0]
read_hash(b) == b[1]

\* static_cast<uint8_t>(tx_state) and back.
state_byte(st) ==
    CASE st = "unsent" -> 0 [] st = "unconfirmed" -> 1 [] st = "confirmed" -> 2
byte_state(b) ==
    CASE b = 0 -> "unsent" [] b = 1 -> "unconfirmed" [] b = 2 -> "confirmed"
      [] OTHER -> "invalid"

\* A script, as the byte naming the address it decodes to.
script_byte(a) == CASE a = "A" -> 1 [] a = "B" -> 2 [] OTHER -> 0
byte_script(b) == CASE b = 1 -> "A" [] b = 2 -> "B" [] OTHER -> NoAddr

RECURSIVE Flatten(_)
Flatten(ss) == IF ss = << >> THEN << >> ELSE Head(ss) \o Flatten(Tail(ss))

\* bc::satoshi_save: input count, inputs (previous output hash, index,
\* script), output count, outputs (value, script).
input_size == hash_size + 5
output_size == 9
satoshi_save(tx) ==
    <<Len(tx.inputs)>>
    \o Flatten([k \in DOMAIN tx.inputs |->
                  write_hash(tx.inputs[k].previous_output.hash)
                  \o write_index(tx.inputs[k].previous_output.index)
                  \o <<script_byte(tx.inputs[k].addr)>>])
    \o <<Len(tx.outputs)>>
    \o Flatten([k \in DOMAIN tx.outputs |->
                  write_8_bytes(tx.outputs[k].value)
                  \o <<script_byte(tx.outputs[k].addr)>>])

satoshi_raw_size(tx) ==
    2 + input_size * Len(tx.inputs) + output_size * Len(tx.outputs)

Bytes(data, pos, n) == SubSeq(data, pos, pos + n - 1)
Avail(data, pos, n) == pos + n - 1 <= Len(data)

\* bc::satoshi_load from position pos: [ok, tx]; ok is FALSE when the data
\* ends inside the transaction (end_of_stream).
satoshi_load(data, pos) ==
    IF ~Avail(data, pos, 1) THEN [ok |-> FALSE]
    ELSE LET n_in == data[pos]
             out_pos == pos + 1 + input_size * n_in
         IN IF ~Avail(data, out_pos, 1) THEN [ok |-> FALSE]
            ELSE LET n_out == data[out_pos]
                 IN IF ~Avail(data, out_pos + 1, output_size * n_out)
                    THEN [ok |-> FALSE]
                    ELSE [ok |-> TRUE,
                          tx |-> [inputs |-> [k \in 1..n_in |->
                                     LET at == pos + 1 + input_size * (k - 1)
                                     IN In(read_hash(Bytes(data, at, hash_size)),
                                           read_index(Bytes(data, at + hash_size, 4)),
                                           byte_script(data[at + hash_size + 4]))],
                                  outputs |-> [k \in 1..n_out |->
                                     LET at == out_pos + 1 + output_size * (k - 1)
                                     IN Out(read_8_bytes(Bytes(data, at, 8)),
                                            byte_script(data[at + 8]))]]]

\* tx_db::serialize, "Don't save old unconfirmed transactions": the test
\* that skips a row.
serialize_skips(row, t) == row.timestamp + unconfirmed_timeout_ < t

\* A row block that always carries block_height in its 8-byte field.
serialize_row_height(tx_hash, row) ==
    <<serial_tx>> \o write_hash(tx_hash) \o satoshi_save(row.tx)
    \o <<state_byte(row.state)>> \o write_8_bytes(row.block_height)
    \o <<IF row.need_check THEN 1 ELSE 0>>

\* One row block of tx_db::serialize.
serialize_row(tx_hash, row) ==
    LET height == IF row.state = "unconfirmed" THEN row.timestamp
                  ELSE row.block_height
    IN <<serial_tx>> \o write_hash(tx_hash) \o satoshi_save(row.tx)
       \o <<state_byte(row.state)>> \o write_8_bytes(height)
       \o <<IF row.need_check THEN 1 ELSE 0>>

RECURSIVE serialize_rows(_, _, _)
serialize_rows(rs, order, t) ==
    IF order = << >> THEN << >>
    ELSE (IF serialize_skips(rs[Head(order)], t) THEN << >>
          ELSE serialize_row(Head(order), rs[Head(order)]))
         \o serialize_rows(rs, Tail(order), t)

\* tx_db::serialize at wall-clock time t, the rows visited in the given order.
serialize(rs, height, order, t) ==
    write_4_bytes(serial_magic) \o write_8_bytes(height)
    \o serialize_rows(rs, order, t)

\* The while loop of tx_db::load from position pos, rows the local map:
\* [ok, rows]; ok is FALSE on a bad row tag or on end_of_stream.
RECURSIVE load_rows(_, _, _, _)
load_rows(data, pos, rows, t) ==
    IF pos = Len(data) + 1 THEN [ok |-> TRUE, rows |-> rows, decoded |-> rows]
    ELSE IF data[pos] # serial_tx THEN [ok |-> FALSE, decoded |-> rows]
    ELSE IF ~Avail(data, pos + 1, hash_size) THEN [ok |-> FALSE, decoded |-> rows]
    ELSE LET hash == read_hash(Bytes(data, pos + 1, hash_size))
             tx_pos == pos + 1 + hash_size
             loaded == satoshi_load(data, tx_pos)
         IN IF ~loaded.ok THEN [ok |-> FALSE, decoded |-> rows]
            ELSE LET step == tx_pos + satoshi_raw_size(loaded.tx)
                 IN IF ~Avail(data, step, 10) THEN [ok |-> FALSE, decoded |-> rows]
                    ELSE LET state == byte_state(data[step])
                             block_height == read_8_bytes(Bytes(data, step + 1, 8))
                             timestamp == IF state = "unconfirmed"
                                          THEN block_height ELSE t
                             need_check == data[step + 9] # 0
                             row == tx_row(loaded.tx, state, block_height,
                                           timestamp, need_check)
                             rows2 == [h \in DOMAIN rows \cup {hash} |->
                                          IF h = hash THEN row ELSE rows[h]]
                         IN load_rows(data, step + 10, rows2, t)

\* tx_db::load at wall-clock time t: [ret, replace, last_height, rows].
\* replace tells whether the members are assigned (lines 287-288).
load(data, t) ==
    IF ~Avail(data, 1, 4) THEN [ret |-> FALSE, replace |-> FALSE, decoded |-> EmptyRows]
    ELSE LET magic == read_4_bytes(Bytes(data, 1, 4))
         IN IF magic = old_serial_magic
            THEN [ret |-> TRUE, replace |-> FALSE, decoded |-> EmptyRows]
            ELSE IF magic # serial_magic
            THEN [ret |-> FALSE, replace |-> FALSE, decoded |-> EmptyRows]
            ELSE IF ~Avail(data, 5, 8)
            THEN [ret |-> FALSE, replace |-> FALSE, decoded |-> EmptyRows]
            ELSE LET r == load_rows(data, 13, EmptyRows, t)
                 IN IF r.ok
                    THEN [ret |-> TRUE, replace |-> TRUE,
                          last_height |-> read_8_bytes(Bytes(data, 5, 8)),
                          rows |-> r.rows, decoded |-> r.rows]
                    ELSE [ret |-> FALSE, replace |-> FALSE, decoded |-> r.decoded]

\* A load that decodes into rows_ itself instead of a local map.
load_rows_in_place(rs, data, t) ==
    LET r == load(data, t)
    IN IF r.replace THEN r.rows
       ELSE IF r.decoded # EmptyRows THEN r.decoded
       ELSE rs

\* The members of the store after tx_db::load.
load_rows_(rs, data, t) ==
    LET r == load(data, t) IN IF r.replace THEN r.rows ELSE rs
load_last_height_(height, data, t) ==
    LET r == load(data, t) IN IF r.replace THEN r.last_height ELSE height

(***************************************************************************)
(* The parts of the state an operation of another component leaves alone.  *)
(***************************************************************************)
NoStore == [rows |-> EmptyRows, last_height |-> 0, now |-> 0]

UpdaterIdle ==
    /\ watch_rows_ = [a \in {} |-> 0]
    /\ failed_ = FALSE
    /\ queued_queries_ = 0
    /\ queued_get_indices_ = 0
    /\ last_wakeup_ = 0
    /\ clock = 0
    /\ started = FALSE
    /\ inflight = EmptyBag

ObsIdle ==
    /\ lastOp = [op |-> "construct"]
    /\ ret = << >>
    /\ calls = << >>
    /\ failure = NoFailure

SerIdle == blob = << >> /\ saved = NoStore
QueryIdle == q_pc = "idle" /\ q_addrs = {} /\ q_raw = << >>

(***************************************************************************)
(* SpecSer: serialize and load.  The store starts as one a well-formed     *)
(* blob can have been loaded into; the host then lets time pass, saves,    *)
(* and loads the saved bytes back, intact or damaged.                      *)
(***************************************************************************)
SerHashes == {1, 2}

\* The rows a hash can have at wall-clock time t: unsent as inserted;
\* unconfirmed, with whatever height an earlier confirmation left;
\* confirmed, flagged or not.
RowValues(h, t) ==
    {tx_row(Tx(h), "unsent", 0, ts, FALSE) : ts \in 0..t}
    \cup {tx_row(Tx(h), "unconfirmed", bh, ts, FALSE) :
            bh \in 0..MaxHeight, ts \in 0..t}
    \cup {tx_row(Tx(h), "confirmed", bh, ts, nc) :
            bh \in 0..MaxHeight, ts \in 0..t, nc \in BOOLEAN}

Stores(H, t) ==
    UNION {{rs \in [S -> UNION {RowValues(h, t) : h \in S}] :
               \A h \in S : rs[h] \in RowValues(h, t)} : S \in SUBSET H}

InitSer ==
    /\ now \in 0..MaxTime
    /\ rows_ \in Stores(SerHashes, now)
    /\ last_height_ \in {0, MaxHeight}
    /\ UpdaterIdle /\ ObsIdle /\ SerIdle /\ QueryIdle

\* time(nullptr) advances.
Tick ==
    /\ now < MaxTime
    /\ now' = now + 1
    /\ lastOp' = [op |-> "tick"]
    /\ ret' = << >>
    /\ calls' = << >>
    /\ UNCHANGED <<rows_, last_height_, failure, updVars, inflight, serVars, qVars>>

\* tx_db::serialize()
Serialize ==
    /\ failure = NoFailure
    /\ blob = << >>
    /\ \E order \in Orders(DOMAIN rows_) :
          blob' = serialize(rows_, last_height_, order, now)
    /\ saved' = [rows |-> rows_, last_height |-> last_height_, now |-> now]
    /\ lastOp' = [op |-> "serialize"]
    /\ ret' = blob'
    /\ calls' = << >>
    /\ UNCHANGED <<dbVars, failure, updVars, inflight, qVars>>

\* tx_db::load(data)
LoadData(data, what) ==
    /\ failure = NoFailure
    /\ rows_' = load_rows_(rows_, data, now)
    /\ last_height_' = load_last_height_(last_height_, data, now)
    /\ LET r == load(data, now)
       IN /\ lastOp' = [op |-> "load", arg |-> what,
                        decoded |-> Cardinality(DOMAIN r.decoded)]
          /\ ret' = r.ret
    /\ calls' = << >>
    /\ UNCHANGED <<now, failure, updVars, inflight, serVars, qVars>>

\* The positions of the row tags of a well-formed blob, from position pos.
RECURSIVE tag_positions(_, _)
tag_positions(data, pos) ==
    IF pos > Len(data) THEN {}
    ELSE LET tx_pos == pos + 1 + hash_size
             step == tx_pos + satoshi_raw_size(satoshi_load(data, tx_pos).tx)
         IN {pos} \cup tag_positions(data, step + 10)

\* Where the damaged inputs are cut: inside the header, and in every row block
\* after the tag, inside the hash, inside the transaction, inside the height
\* and before the need_check byte.
cut_points(data) ==
    {0, 2, 8}
    \cup UNION {{p, p + 5, p + hash_size + 2} : p \in tag_positions(data, 13)}
    \cup UNION {{p - 6, p - 2} : p \in (tag_positions(data, 13) \ {13})
                                        \cup {Len(data) + 1}}

LoadSaved == blob # << >> /\ LoadData(blob, "saved")

LoadTruncated ==
    /\ blob # << >>
    /\ \E k \in cut_points(blob) : k < Len(blob) /\ LoadData(SubSeq(blob, 1, k), "truncated")

LoadBadTag ==
    /\ blob # << >>
    /\ \E p \in tag_positions(blob, 13) : LoadData([blob EXCEPT ![p] = 0], "bad_tag")

LoadBadMagic ==
    /\ blob # << >>
    /\ LoadData([blob EXCEPT ![1] = 0], "bad_magic")

\* A blob written by the old watcher: the legacy magic, then its payload.
LoadLegacy ==
    /\ blob # << >>
    /\ LoadData(write_4_bytes(old_serial_magic) \o SubSeq(blob, 5, Len(blob)), "legacy")

\* tx_db::forget(tx_hash), as the updater calls it after a rejected broadcast.
Forget ==
    /\ failure = NoFailure
    /\ \E h \in DOMAIN rows_ :
          /\ rows_' = forget(rows_, h)
          /\ lastOp' = [op |-> "forget", arg |-> h]
    /\ ret' = << >>
    /\ calls' = << >>
    /\ UNCHANGED <<last_height_, now, failure, updVars, inflight, serVars, qVars>>

\* Time passes between the save and the load.
TickSaved == blob # << >> /\ Tick

NextSer ==
    \/ TickSaved
    \/ Serialize
    \/ LoadSaved
    \/ LoadTruncated
    \/ LoadBadTag
    \/ LoadBadMagic
    \/ LoadLegacy

SpecSer == InitSer /\ [][NextSer]_vars

(***************************************************************************)
(* SpecUtxo: the UTXO queries.  One thread (the updater's) inserts and     *)
(* forgets rows; another calls get_utxos() and get_utxos(addresses).  The  *)
(* latter takes the store's mutex twice: once inside get_utxos() for raw,  *)
(* once for the filter; q_pc = "filter" is the thread between the two.     *)
(***************************************************************************)
AssertUtxoRow == "get_utxos(addresses): BITCOIN_ASSERT(i != rows_.end())"

InitUtxo ==
    /\ rows_ = EmptyRows
    /\ last_height_ = 0
    /\ now = 0
    /\ UpdaterIdle /\ ObsIdle /\ SerIdle /\ QueryIdle

\* tx_db::insert(tx, state), as the updater calls it.
Insert ==
    /\ failure = NoFailure
    /\ \E h \in TxHashes, st \in {"unsent", "unconfirmed"} :
          /\ rows_' = insert(rows_, Tx(h), st, now)
          /\ ret' = insert_ok(rows_, Tx(h))
          /\ lastOp' = [op |-> "insert", arg |-> h, state |-> st]
    /\ calls' = << >>
    /\ UNCHANGED <<last_height_, now, failure, updVars, inflight, serVars, qVars>>

\* tx_db::get_utxos()
GetUtxos ==
    /\ failure = NoFailure
    /\ \E order \in Orders(DOMAIN rows_) : ret' = get_utxos(rows_, order)
    /\ lastOp' = [op |-> "get_utxos"]
    /\ calls' = << >>
    /\ UNCHANGED <<dbVars, failure, updVars, inflight, serVars, qVars>>

\* tx_db::get_utxos(addresses), line 185: raw = get_utxos().
QueryRaw ==
    /\ failure = NoFailure
    /\ q_pc = "idle"
    /\ \E order \in Orders(DOMAIN rows_) : q_raw' = get_utxos(rows_, order)
    /\ \E addresses \in SUBSET Addresses : q_addrs' = addresses
    /\ q_pc' = "filter"
    /\ lastOp' = [op |-> "get_utxos(addresses): raw"]
    /\ ret' = << >>
    /\ calls' = << >>
    /\ UNCHANGED <<dbVars, failure, updVars, inflight, serVars>>

\* tx_db::get_utxos(addresses), lines 187-202: the filter, under the mutex
\* again.  A utxo of raw whose row is gone fails the assertion.
QueryFilter ==
    /\ failure = NoFailure
    /\ q_pc = "filter"
    /\ IF filter_missing(rows_, q_raw) # 0
       THEN /\ failure' = AssertUtxoRow
            /\ ret' = << >>
            /\ UNCHANGED qVars
       ELSE /\ ret' = filter_utxos(rows_, q_raw, q_addrs)
            /\ q_pc' = "idle"
            /\ UNCHANGED <<failure, q_addrs, q_raw>>
    /\ lastOp' = [op |-> "get_utxos(addresses)"]
    /\ calls' = << >>
    /\ UNCHANGED <<dbVars, updVars, inflight, serVars>>

NextUtxo ==
    \/ Tick
    \/ Insert
    \/ Forget
    \/ GetUtxos
    \/ QueryRaw
    \/ QueryFilter

SpecUtxo == InitUtxo /\ [][NextUtxo]_vars

(***************************************************************************)
(* SpecConfirm: confirmed on the rows of a store.  The store starts as one *)
(* a well-formed blob can have been loaded into; the rows are then         *)
(* confirmed, at any height and in any order, again and again.             *)
(***************************************************************************)
InitConfirm ==
    /\ now = 0
    /\ rows_ \in Stores(SerHashes, now)
    /\ last_height_ = 0
    /\ UpdaterIdle /\ ObsIdle /\ SerIdle /\ QueryIdle

\* tx_db::confirmed(tx_hash, block_height), for a hash that has a row
Confirmed ==
    /\ failure = NoFailure
    /\ \E tx_hash \in DOMAIN rows_, block_height \in 0..MaxHeight :
          /\ rows_' = confirmed(rows_, tx_hash, block_height)
          /\ ret' = confirmed_check_fork(rows_, tx_hash, block_height)
          /\ lastOp' = [op |-> "confirmed", arg |-> tx_hash,
                        height |-> block_height]
    /\ calls' = << >>
    /\ UNCHANGED <<last_height_, now, failure, updVars, inflight, serVars, qVars>>

NextConfirm == Confirmed

SpecConfirm == InitConfirm /\ [][NextConfirm]_vars

(***************************************************************************)
(* tx_updater.  A handler is a function of the machine state m: the store  *)
(* (rows, last_height), the updater's members, the codec's pending         *)
(* requests, the calls made so far and the assertion that failed, if any.  *)
(***************************************************************************)
\* size_t arithmetic: size_max stands for 2^64 - 1.
size_max == 0 - 1
inc(x) == IF x = size_max THEN 0 ELSE x + 1
dec(x) == IF x = 0 THEN size_max ELSE x - 1

Req(op, hash, want_inputs, address) ==
    [op |-> op, hash |-> hash, want_inputs |-> want_inputs, address |-> address]
NoAddress == "-"

Machine ==
    [rows |-> rows_, last_height |-> last_height_, failed |-> failed_,
     queued_queries |-> queued_queries_,
     queued_get_indices |-> queued_get_indices_,
     inflight |-> inflight, calls |-> << >>, failure |-> NoFailure]

\* A request handed to the codec; locked: the store's mutex is held by the
\* caller (the call is made from inside a tx_db::foreach_* callback).  rows
\* and last_height are the store as it is when the call is made.
codec_(m, req, locked) ==
    [m EXCEPT !.inflight = @ (+) SetToBag({req}),
              !.calls = Append(@, [kind |-> "codec", op |-> req.op,
                                   arg |-> req, locked |-> locked,
                                   rows |-> m.rows,
                                   last_height |-> m.last_height])]

\* A callback of tx_callbacks, with the store as the sink finds it.
callbacks_(m, op, arg, locked) ==
    [m EXCEPT !.calls = Append(@, [kind |-> "sink", op |-> op,
                                   arg |-> arg, locked |-> locked,
                                   rows |-> m.rows,
                                   last_height |-> m.last_height])]

\* query_done without its test of the counter.
query_done_untested(m) ==
    callbacks_([m EXCEPT !.queued_queries = dec(@)], "on_quiet", << >>, FALSE)

\* tx_updater::query_done
query_done(m) ==
    LET m1 == [m EXCEPT !.queued_queries = dec(@)]
    IN IF m1.queued_queries = 0
       THEN callbacks_(m1, "on_quiet", << >>, FALSE)
       ELSE m1

\* tx_updater::get_index, the dispatch
get_index(m, tx_hash, locked) ==
    codec_([m EXCEPT !.queued_get_indices = inc(@)],
           Req("fetch_transaction_index", tx_hash, FALSE, NoAddress), locked)

RECURSIVE get_index_each(_, _)
get_index_each(m, order) ==
    IF order = << >> THEN m
    ELSE get_index_each(get_index(m, Head(order), TRUE), Tail(order))

\* tx_db::foreach_unconfirmed(get_index): the callback runs under the mutex.
foreach_unconfirmed(m) ==
    get_index_each(m, SomeOrder({h \in DOMAIN m.rows :
                                    m.rows[h].state # "confirmed"}))

\* tx_db::foreach_forked(get_index): the callback runs under the mutex.
foreach_forked(m) ==
    get_index_each(m, SomeOrder({h \in DOMAIN m.rows :
                                    /\ m.rows[h].state = "confirmed"
                                    /\ m.rows[h].need_check}))

\* A queue_get_indices that sweeps whatever the counter says.
queue_get_indices_always(m) == foreach_forked(m)

\* tx_updater::queue_get_indices
queue_get_indices(m) ==
    IF m.queued_get_indices # 0 THEN m ELSE foreach_forked(m)

\* tx_updater::send_tx, the dispatch
send_tx(m, tx_hash, locked) ==
    codec_(m, Req("broadcast_transaction", tx_hash, FALSE, NoAddress), locked)

RECURSIVE send_tx_each(_, _)
send_tx_each(m, order) ==
    IF order = << >> THEN m
    ELSE send_tx_each(send_tx(m, Head(order), TRUE), Tail(order))

\* tx_db::foreach_unsent(send_tx): the callback runs under the mutex.
foreach_unsent(m) ==
    send_tx_each(m, SomeOrder({h \in DOMAIN m.rows :
                                  m.rows[h].state = "unsent"}))

\* tx_updater::get_height, the dispatch
get_height(m) == codec_(m, Req("fetch_last_height", null_hash, FALSE, NoAddress), FALSE)

\* A get_tx that does not count the query it issues.
get_tx_uncounted(m, tx_hash, want_inputs) ==
    codec_(m, Req("fetch_transaction", tx_hash, want_inputs, NoAddress), FALSE)

\* tx_updater::get_tx, the dispatch
get_tx(m, tx_hash, want_inputs) ==
    codec_([m EXCEPT !.queued_queries = inc(@)],
           Req("fetch_transaction", tx_hash, want_inputs, NoAddress), FALSE)

\* tx_updater::get_tx_mem, the dispatch
get_tx_mem(m, tx_hash, want_inputs) ==
    codec_([m EXCEPT !.queued_queries = inc(@)],
           Req("fetch_unconfirmed_transaction", tx_hash, want_inputs, NoAddress),
           FALSE)

\* tx_updater::query_address, the dispatch
query_address(m, address) ==
    codec_([m EXCEPT !.queued_queries = inc(@)],
           Req("address_fetch_history", null_hash, FALSE, address), FALSE)

\* tx_updater::watch(tx_hash, want_inputs) and tx_updater::get_inputs, the
\* latter from input k on.
RECURSIVE watch_tx(_, _, _)
RECURSIVE get_inputs_from(_, _, _)
watch_tx(m, tx_hash, want_inputs) ==
    LET m1 == [m EXCEPT !.rows = reset_timestamp(@, tx_hash, now)]
    IN IF ~has_tx(m1.rows, tx_hash) THEN get_tx(m1, tx_hash, want_inputs)
       ELSE IF want_inputs THEN get_inputs_from(m1, m1.rows[tx_hash].tx, 1)
       ELSE m1

\* A get_inputs that asks for the inputs of the inputs as well.
RECURSIVE get_inputs_from_deep(_, _, _)
get_inputs_from_deep(m, tx, k) ==
    IF k > Len(tx.inputs) THEN m
    ELSE get_inputs_from_deep(watch_tx(m, tx.inputs[k].previous_output.hash, TRUE),
                              tx, k + 1)

get_inputs_from(m, tx, k) ==
    IF k > Len(tx.inputs) THEN m
    ELSE get_inputs_from(watch_tx(m, tx.inputs[k].previous_output.hash, FALSE),
                         tx, k + 1)

get_inputs(m, tx) == get_inputs_from(m, tx, 1)

(***************************************************************************)
(* tx_updater: the completion handlers.                                    *)
(***************************************************************************)
AssertConfirmedRow == "tx_db::confirmed: BITCOIN_ASSERT(i != rows_.end())"
AssertUnconfirmedRow == "tx_db::unconfirmed: BITCOIN_ASSERT(i != rows_.end())"

Abort(m, assertion) == [m EXCEPT !.failure = assertion]

\* get_height: on_error
get_height_error(m) == [m EXCEPT !.failed = TRUE]

\* tx_db::at_height
at_height(m, height) ==
    [m EXCEPT !.last_height = height, !.rows = check_fork(@, height)]

\* get_height: on_done, with on_height raised from inside the store's
\* critical section.
get_height_done_locked(m, height) ==
    IF height # m.last_height
    THEN queue_get_indices(
             foreach_unconfirmed(
                 callbacks_(at_height(m, height), "on_height", height, TRUE)))
    ELSE m

\* get_height: on_done without the comparison with last_height().
get_height_done_every_reply(m, height) ==
    queue_get_indices(
        foreach_unconfirmed(
            callbacks_(at_height(m, height), "on_height", height, FALSE)))

\* get_height: on_done
get_height_done(m, height) ==
    IF height # m.last_height
    THEN queue_get_indices(
             foreach_unconfirmed(
                 callbacks_(at_height(m, height), "on_height", height, FALSE)))
    ELSE m

\* get_tx: on_error that releases the query before it issues the fallback.
get_tx_error_release_first(m, tx_hash, want_inputs) ==
    get_tx_mem(query_done(m), tx_hash, want_inputs)

\* get_tx: on_error
get_tx_error(m, tx_hash, want_inputs) ==
    query_done(get_tx_mem(m, tx_hash, want_inputs))

\* get_tx: on_done that calls on_add whatever insert returned.
get_tx_done_readd(m, tx_hash, want_inputs, tx) ==
    LET m1 == callbacks_([m EXCEPT !.rows = insert(@, tx, "unconfirmed", now)],
                         "on_add", hash_transaction(tx), FALSE)
        m2 == IF want_inputs THEN get_inputs(m1, tx) ELSE m1
    IN query_done(get_index(m2, tx_hash, FALSE))

\* get_tx / get_tx_mem: on_done, tx the transaction the server returned
\* (the handler asserts that it hashes to tx_hash).
get_tx_done(m, tx_hash, want_inputs, tx) ==
    LET m1 == IF insert_ok(m.rows, tx)
              THEN callbacks_([m EXCEPT !.rows = insert(@, tx, "unconfirmed", now)],
                              "on_add", hash_transaction(tx), FALSE)
              ELSE m
        m2 == IF want_inputs THEN get_inputs(m1, tx) ELSE m1
    IN query_done(get_index(m2, tx_hash, FALSE))

\* get_tx_mem: on_error
get_tx_mem_error(m) == query_done([m EXCEPT !.failed = TRUE])

\* get_index: on_error
get_index_error(m, tx_hash) ==
    IF ~has_tx(m.rows, tx_hash) THEN Abort(m, AssertUnconfirmedRow)
    ELSE queue_get_indices(
             [m EXCEPT !.rows = unconfirmed(@, tx_hash),
                       !.queued_get_indices = dec(@)])

\* get_index: on_done
get_index_done(m, tx_hash, block_height) ==
    IF ~has_tx(m.rows, tx_hash) THEN Abort(m, AssertConfirmedRow)
    ELSE queue_get_indices(
             [m EXCEPT !.rows = confirmed(@, tx_hash, block_height),
                       !.queued_get_indices = dec(@)])

\* send_tx: on_error that also reports a server failure.
send_tx_error_failing(m, tx_hash) ==
    callbacks_([m EXCEPT !.rows = forget(@, tx_hash), !.failed = TRUE],
               "on_send", <<"error", tx_hash>>, FALSE)

\* send_tx: on_error
send_tx_error(m, tx_hash) ==
    callbacks_([m EXCEPT !.rows = forget(@, tx_hash)],
               "on_send", <<"error", tx_hash>>, FALSE)

\* send_tx: on_done that tells the sink before it updates the store.
send_tx_done_notify_first(m, tx_hash) ==
    IF ~has_tx(m.rows, tx_hash) THEN Abort(m, AssertUnconfirmedRow)
    ELSE [callbacks_(m, "on_send", <<"ok", tx_hash>>, FALSE)
             EXCEPT !.rows = unconfirmed(@, tx_hash)]

\* send_tx: on_done
send_tx_done(m, tx_hash) ==
    IF ~has_tx(m.rows, tx_hash) THEN Abort(m, AssertUnconfirmedRow)
    ELSE callbacks_([m EXCEPT !.rows = unconfirmed(@, tx_hash)],
                    "on_send", <<"ok", tx_hash>>, FALSE)

\* query_address: on_error
query_address_error(m) == query_done([m EXCEPT !.failed = TRUE])

\* query_address: on_done, the loop over the history from row k on
RECURSIVE watch_history(_, _, _)
watch_history(m, history, k) ==
    IF k > Len(history) THEN m
    ELSE LET m1 == watch_tx(m, history[k].output, TRUE)
             m2 == IF history[k].spend # null_hash
                   THEN watch_tx(m1, history[k].spend, TRUE)
                   ELSE m1
         IN watch_history(m2, history, k + 1)

query_address_done(m, history) == query_done(watch_history(m, history, 1))

(***************************************************************************)
(* Spec: the updater.  The host constructs the store (empty, or loaded     *)
(* from a blob), constructs the updater on it, calls start() once and then *)
(* watch(), send() and wakeup() as it likes, while the steady clock        *)
(* advances and the codec completes the pending requests in any order,     *)
(* each with success or with an error.                                     *)
(***************************************************************************)
\* The transactions the host authors and sends; the server also knows
\* transaction 1, whose first output transaction 2 spends.
SendHashes == {2}
\* The addresses the host watches, and the poll intervals it asks for.
UpdAddresses == {"A"}
PollTimes == {30}
\* How long the host sleeps between two calls.
SleepSteps == {30}
\* The histories the server reports for a watched address.
History(output, spend) == [output |-> output, spend |-> spend]
Histories ==
    {<< >>, <<History(1, null_hash)>>, <<History(1, 2)>>}

\* auto period = std::chrono::seconds(30)
period == 30

\* The stores the updater is constructed on.
UpdStores ==
    {EmptyRows,
     (1 :> tx_row(Tx(1), "confirmed", 1, 0, TRUE)),
     (2 :> tx_row(Tx(2), "unsent", 0, 0, FALSE))}

Init ==
    /\ rows_ \in UpdStores
    /\ last_height_ = 0
    /\ now = 0
    /\ UpdaterIdle /\ ObsIdle /\ SerIdle /\ QueryIdle

Running == failure = NoFailure

\* The state after a handler that took the machine to m.
Commit(m, op, r) ==
    /\ BagCardinality(m.inflight) <= MaxInflight
    /\ rows_' = m.rows
    /\ last_height_' = m.last_height
    /\ failed_' = m.failed
    /\ queued_queries_' = m.queued_queries
    /\ queued_get_indices_' = m.queued_get_indices
    /\ inflight' = m.inflight
    /\ calls' = m.calls
    /\ failure' = m.failure
    /\ lastOp' = op
    /\ ret' = r
    /\ UNCHANGED <<now, serVars, qVars>>

\* tx_updater::start
start(m) == foreach_unsent(queue_get_indices(foreach_unconfirmed(get_height(m))))

Start ==
    /\ Running /\ ~started
    /\ started' = TRUE
    /\ Commit(start(Machine), [op |-> "start"], << >>)
    /\ UNCHANGED <<watch_rows_, last_wakeup_, clock>>

\* tx_updater::watch(address, poll)
Watch ==
    /\ Running /\ started
    /\ \E address \in UpdAddresses, poll \in PollTimes :
          /\ watch_rows_' = [a \in DOMAIN watch_rows_ \cup {address} |->
                               IF a = address
                               THEN [poll_time |-> poll, last_check |-> clock]
                               ELSE watch_rows_[a]]
          /\ Commit(query_address(Machine, address),
                    [op |-> "watch", arg |-> address], << >>)
    /\ UNCHANGED <<last_wakeup_, clock, started>>

\* tx_updater::send(tx)
send(m, tx) ==
    LET m1 == IF insert_ok(m.rows, tx)
              THEN callbacks_([m EXCEPT !.rows = insert(@, tx, "unsent", now)],
                              "on_add", hash_transaction(tx), FALSE)
              ELSE m
    IN send_tx(m1, hash_transaction(tx), FALSE)

Send ==
    /\ Running /\ started
    /\ \E h \in SendHashes :
          Commit(send(Machine, Tx(h)), [op |-> "send", arg |-> h], << >>)
    /\ UNCHANGED <<watch_rows_, last_wakeup_, clock, started>>

\* A min_sleep that returns the later of the two.
max_sleep(a, b) == IF a < b THEN b ELSE a

\* bc::client::min_sleep
min_sleep(a, b) == IF a < b THEN a ELSE b

\* tx_updater::wakeup, "Figure out when our next address check should be":
\* the loop over the watched rows, w = [m, rows, next_wakeup].
RECURSIVE wakeup_rows(_, _)
wakeup_rows(w, order) ==
    IF order = << >> THEN w
    ELSE LET address == Head(order)
             poll_time == w.rows[address].poll_time
             elapsed == clock - w.rows[address].last_check
         IN wakeup_rows(
                IF poll_time <= elapsed
                THEN [m |-> query_address(w.m, address),
                      rows |-> [w.rows EXCEPT ![address].last_check = clock],
                      next_wakeup |-> min_sleep(w.next_wakeup, poll_time)]
                ELSE [w EXCEPT !.next_wakeup = min_sleep(@, poll_time - elapsed)],
                Tail(order))

\* tx_updater::wakeup: [m, rows, last_wakeup, next_wakeup]
wakeup(m) ==
    LET due == period <= clock - last_wakeup_
        m1 == IF due THEN get_height(m) ELSE m
        elapsed == IF due THEN 0 ELSE clock - last_wakeup_
        w == wakeup_rows([m |-> m1, rows |-> watch_rows_,
                          next_wakeup |-> period - elapsed],
                         SomeOrder(DOMAIN watch_rows_))
        m2 == IF w.m.failed
              THEN [callbacks_(w.m, "on_fail", << >>, FALSE) EXCEPT !.failed = FALSE]
              ELSE w.m
    IN [m |-> m2, rows |-> w.rows,
        last_wakeup |-> IF due THEN clock ELSE last_wakeup_,
        next_wakeup |-> w.next_wakeup]

Wakeup ==
    /\ Running /\ started
    /\ LET w == wakeup(Machine)
       IN /\ watch_rows_' = w.rows
          /\ last_wakeup_' = w.last_wakeup
          /\ Commit(w.m, [op |-> "wakeup"], w.next_wakeup)
    /\ UNCHANGED <<clock, started>>

\* The steady clock advances while the host sleeps.
Sleep ==
    /\ Running /\ started
    /\ \E d \in SleepSteps : clock + d <= MaxClock /\ clock' = clock + d
    /\ lastOp' = [op |-> "sleep"]
    /\ ret' = << >>
    /\ calls' = << >>
    /\ UNCHANGED <<dbVars, watch_rows_, failed_, queued_queries_,
                   queued_get_indices_, last_wakeup_, started, inflight,
                   failure, serVars, qVars>>

\* The codec completes a pending request: the machine with the request taken
\* off the pending ones.
Pending(op) == {req \in BagToSet(inflight) : req.op = op}
Taken(req) == [Machine EXCEPT !.inflight = @ (-) SetToBag({req})]
Completion(req, outcome, value) ==
    [op |-> req.op, arg |-> req, outcome |-> outcome, value |-> value]
UpdFrame == UNCHANGED <<watch_rows_, last_wakeup_, clock, started>>

HeightDone ==
    /\ Running
    /\ \E req \in Pending("fetch_last_height"), height \in 0..MaxHeight :
          Commit(get_height_done(Taken(req), height),
                 Completion(req, "done", height), << >>)
    /\ UpdFrame

HeightError ==
    /\ Running
    /\ \E req \in Pending("fetch_last_height") :
          Commit(get_height_error(Taken(req)), Completion(req, "error", << >>), << >>)
    /\ UpdFrame

TxDone ==
    /\ Running
    /\ \E req \in Pending("fetch_transaction") :
          Commit(get_tx_done(Taken(req), req.hash, req.want_inputs, Tx(req.hash)),
                 Completion(req, "done", req.hash), << >>)
    /\ UpdFrame

TxError ==
    /\ Running
    /\ \E req \in Pending("fetch_transaction") :
          Commit(get_tx_error(Taken(req), req.hash, req.want_inputs),
                 Completion(req, "error", << >>), << >>)
    /\ UpdFrame

TxMemDone ==
    /\ Running
    /\ \E req \in Pending("fetch_unconfirmed_transaction") :
          Commit(get_tx_done(Taken(req), req.hash, req.want_inputs, Tx(req.hash)),
                 Completion(req, "done", req.hash), << >>)
    /\ UpdFrame

TxMemError ==
    /\ Running
    /\ \E req \in Pending("fetch_unconfirmed_transaction") :
          Commit(get_tx_mem_error(Taken(req)), Completion(req, "error", << >>), << >>)
    /\ UpdFrame

IndexDone ==
    /\ Running
    /\ \E req \in Pending("fetch_transaction_index"), height \in 0..MaxHeight :
          Commit(get_index_done(Taken(req), req.hash, height),
                 Completion(req, "done", height), << >>)
    /\ UpdFrame

IndexError ==
    /\ Running
    /\ \E req \in Pending("fetch_transaction_index") :
          Commit(get_index_error(Taken(req), req.hash),
                 Completion(req, "error", << >>), << >>)
    /\ UpdFrame

SendDone ==
    /\ Running
    /\ \E req \in Pending("broadcast_transaction") :
          Commit(send_tx_done(Taken(req), req.hash), Completion(req, "done", << >>), << >>)
    /\ UpdFrame

SendError ==
    /\ Running
    /\ \E req \in Pending("broadcast_transaction") :
          Commit(send_tx_error(Taken(req), req.hash),
                 Completion(req, "error", << >>), << >>)
    /\ UpdFrame

HistoryDone ==
    /\ Running
    /\ \E req \in Pending("address_fetch_history"), history \in Histories :
          Commit(query_address_done(Taken(req), history),
                 Completion(req, "done", history), << >>)
    /\ UpdFrame

HistoryError ==
    /\ Running
    /\ \E req \in Pending("address_fetch_history") :
          Commit(query_address_error(Taken(req)), Completion(req, "error", << >>), << >>)
    /\ UpdFrame

Next ==
    \/ Start
    \/ Watch
    \/ Send
    \/ Wakeup
    \/ Sleep
    \/ HeightDone
    \/ HeightError
    \/ TxDone
    \/ TxError
    \/ TxMemDone
    \/ TxMemError
    \/ IndexDone
    \/ IndexError
    \/ SendDone
    \/ SendError
    \/ HistoryDone
    \/ HistoryError

Spec == Init /\ [][Next]_vars

(***************************************************************************)
(* SpecFetch: the transaction fetches.  The host starts the updater and    *)
(* watches an address whose history names transaction 3, which spends      *)
(* outputs of transactions 1 and 2, transaction 2 spending one of          *)
(* transaction 1 in its turn; the codec completes the pending requests in  *)
(* any order, each with success or with an error.                          *)
(***************************************************************************)
DeepHistories ==
    {<<History(3, null_hash)>>, <<History(1, 2)>>}

HistoryDoneDeep ==
    /\ Running
    /\ \E req \in Pending("address_fetch_history"), history \in DeepHistories :
          Commit(query_address_done(Taken(req), history),
                 Completion(req, "done", history), << >>)
    /\ UpdFrame

NextFetch ==
    \/ Start
    \/ Watch
    \/ HeightDone
    \/ HeightError
    \/ TxDone
    \/ TxError
    \/ TxMemDone
    \/ TxMemError
    \/ IndexDone
    \/ IndexError
    \/ SendDone
    \/ SendError
    \/ HistoryDoneDeep
    \/ HistoryError

SpecFetch == Init /\ [][NextFetch]_vars

(***************************************************************************)
(* SpecWake: the polling schedule.  The host watches two addresses with    *)
(* poll intervals below and above the height period, naps for short and    *)
(* long whiles and calls wakeup(); the codec answers the polls with errors *)
(* (the store stays empty).                                                *)
(***************************************************************************)
WakeAddresses == {"A", "B"}
WakePolls == {10, 40}
NapSteps == {5, 20}

InitWake ==
    /\ rows_ = EmptyRows
    /\ last_height_ = 0
    /\ now = 0
    /\ UpdaterIdle /\ ObsIdle /\ SerIdle /\ QueryIdle

\* tx_updater::watch(address, poll)
WatchPoll ==
    /\ Running /\ started
    /\ \E address \in WakeAddresses, poll \in WakePolls :
          /\ watch_rows_' = [a \in DOMAIN watch_rows_ \cup {address} |->
                               IF a = address
                               THEN [poll_time |-> poll, last_check |-> clock]
                               ELSE watch_rows_[a]]
          /\ Commit(query_address(Machine, address),
                    [op |-> "watch", arg |-> address], << >>)
    /\ UNCHANGED <<last_wakeup_, clock, started>>

\* The steady clock advances while the host naps.
Nap ==
    /\ Running /\ started
    /\ \E d \in NapSteps : clock + d <= MaxWakeClock /\ clock' = clock + d
    /\ lastOp' = [op |-> "sleep"]
    /\ ret' = << >>
    /\ calls' = << >>
    /\ UNCHANGED <<dbVars, watch_rows_, failed_, queued_queries_,
                   queued_get_indices_, last_wakeup_, started, inflight,
                   failure, serVars, qVars>>

NextWake ==
    \/ Start
    \/ WatchPoll
    \/ Wakeup
    \/ Nap
    \/ HeightError
    \/ HistoryError

SpecWake == InitWake /\ [][NextWake]_vars

(***************************************************************************)
(* Claims about the updater (Spec).                                        *)
(***************************************************************************)
QueryOps == {"address_fetch_history", "fetch_transaction",
             "fetch_unconfirmed_transaction"}
SinkCalls(cs, op) == {k \in DOMAIN cs : cs[k].kind = "sink" /\ cs[k].op = op}
CodecCalls(cs, op) == {k \in DOMAIN cs : cs[k].kind = "codec" /\ cs[k].op = op}
IsCompletion(o, op, outcome) ==
    /\ o.op = op
    /\ "outcome" \in DOMAIN o
    /\ o.outcome = outcome
IsQueryCompletion(o) == o.op \in QueryOps /\ "outcome" \in DOMAIN o

\* C1: an operation emits on_quiet once if it is the completion (success or
\* error) of an address-history, fetch_transaction or
\* fetch_unconfirmed_transaction request that takes queued_queries_ from 1 to
\* 0, and does not emit it otherwise: not while the counter is still above 0
\* after the completion, not in an operation that leaves the counter at 0.
C1_QuietOnDescent ==
    [][Cardinality(SinkCalls(calls', "on_quiet")) =
          IF /\ IsQueryCompletion(lastOp')
             /\ queued_queries_ = 1
             /\ queued_queries_' = 0
          THEN 1 ELSE 0]_vars

\* C1, its case: the second of two history queries completes and the
\* updater reports quiet.
C1_Witness ==
    /\ IsCompletion(lastOp, "address_fetch_history", "done")
    /\ queued_queries_ = 0
    /\ Cardinality(SinkCalls(calls, "on_quiet")) = 1
    /\ inflight # EmptyBag

\* C2, where there is nothing to drain (no index query in flight, every row
\* confirmed): when a height poll reports a height other than last_height_,
\* the handler dispatches a fetch_transaction_index for every confirmed row
\* at the highest confirmed height below the reported one.
C2_ForkedRowsQueried ==
    [][(/\ IsCompletion(lastOp', "fetch_last_height", "done")
        /\ lastOp'.value # last_height_
        /\ queued_get_indices_ = 0
        /\ \A h \in DOMAIN rows_ : rows_[h].state = "confirmed")
       => \A h \in DOMAIN rows_ :
             (/\ 0 < rows_[h].block_height
              /\ rows_[h].block_height < lastOp'.value
              /\ rows_[h].block_height = prev_height(rows_, lastOp'.value))
             => \E k \in CodecCalls(calls', "fetch_transaction_index") :
                   calls'[k].arg.hash = h]_vars

\* C3 as stated: no operation makes a codec request or a sink callback while
\* the store's mutex is held.
C3_NoCallUnderLock == \A k \in DOMAIN calls : ~calls[k].locked

\* C3 as amended: no sink callback and no fetch_last_height,
\* fetch_transaction, fetch_unconfirmed_transaction or address_fetch_history
\* request is made while the store's mutex is held; the requests made under
\* it are fetch_transaction_index and broadcast_transaction, in start(), in
\* the height completion and in the index completions (the foreach_*
\* callbacks).
C3_OnlyForeachRequestsUnderLock ==
    \A k \in DOMAIN calls :
        calls[k].locked =>
            /\ calls[k].kind = "codec"
            /\ calls[k].op \in {"fetch_transaction_index", "broadcast_transaction"}
            /\ lastOp.op \in {"start", "fetch_last_height", "fetch_transaction_index"}

\* C3, its case: a height completion raises on_height outside the mutex and
\* dispatches an index query from inside foreach_unconfirmed.
C3_Witness ==
    /\ IsCompletion(lastOp, "fetch_last_height", "done")
    /\ \E k \in SinkCalls(calls, "on_height") : ~calls[k].locked
    /\ \E k \in CodecCalls(calls, "fetch_transaction_index") : calls[k].locked

\* C4: the error completion of a fetch_transaction_index whose row is absent
\* fails no assertion and leaves the store as it was.
C4_IndexErrorOnAbsentRow ==
    [][(/\ IsCompletion(lastOp', "fetch_transaction_index", "error")
        /\ ~has_tx(rows_, lastOp'.arg.hash))
       => /\ failure' = NoFailure
          /\ rows_' = rows_
          /\ last_height_' = last_height_]_vars

(***************************************************************************)
(* Claims about serialize and load (SpecSer).                              *)
(***************************************************************************)
\* The hashes of the row blocks of a well-formed blob.
BlobHashes(data) ==
    {read_hash(Bytes(data, p + 1, hash_size)) : p \in tag_positions(data, 13)}

\* C5: the rows serialize() leaves out of the blob are exactly the
\* unconfirmed rows with timestamp + unconfirmed_timeout_ < now; unsent and
\* confirmed rows are written whatever their timestamp.
C5_SerializeOmitsOnlyStaleUnconfirmed ==
    lastOp.op = "serialize" =>
        \A h \in DOMAIN rows_ :
            (h \notin BlobHashes(blob))
            <=> (/\ rows_[h].state = "unconfirmed"
                 /\ rows_[h].timestamp + unconfirmed_timeout_ < now)

\* C6: loading the bytes serialize() wrote returns true and gives a store
\* with the saved last_height and, for every row written to the blob, the
\* same transaction under the same hash, the same state and need_check, the
\* same block_height if the row is confirmed and the same timestamp if it is
\* unconfirmed.
C6_RoundTrip ==
    (lastOp.op = "load" /\ lastOp.arg = "saved") =>
        /\ ret = TRUE
        /\ last_height_ = saved.last_height
        /\ \A h \in DOMAIN saved.rows :
              h \in BlobHashes(blob) =>
                  /\ h \in DOMAIN rows_
                  /\ rows_[h].tx = saved.rows[h].tx
                  /\ rows_[h].state = saved.rows[h].state
                  /\ rows_[h].need_check = saved.rows[h].need_check
                  /\ (saved.rows[h].state = "confirmed"
                         => rows_[h].block_height = saved.rows[h].block_height)
                  /\ (saved.rows[h].state = "unconfirmed"
                         => rows_[h].timestamp = saved.rows[h].timestamp)

\* C6, its case: a blob with an unconfirmed row and a flagged confirmed row
\* is loaded back some time after it was written.
C6_Witness ==
    /\ lastOp.op = "load" /\ lastOp.arg = "saved"
    /\ saved.now < now
    /\ \E h \in DOMAIN rows_ :
          rows_[h].state = "unconfirmed" /\ rows_[h].timestamp < now
    /\ \E h \in DOMAIN rows_ :
          /\ rows_[h].state = "confirmed"
          /\ rows_[h].need_check
          /\ rows_[h].block_height > 0

\* C7: a load that returns false leaves last_height_ and the rows as they
\* were before the call.
C7_LoadAllOrNothing ==
    [][(lastOp'.op = "load" /\ ret' = FALSE)
       => (rows_' = rows_ /\ last_height_' = last_height_)]_vars

\* C7, its case: the load of a damaged blob fails after it has decoded a
\* row, on a store that holds rows.
C7_Witness ==
    /\ lastOp.op = "load"
    /\ ret = FALSE
    /\ lastOp.decoded > 0
    /\ Cardinality(DOMAIN rows_) > lastOp.decoded

\* C8: the load of a blob that starts with the legacy magic returns true and
\* leaves the store without rows, whatever it held.
C8_LegacyLoadsEmpty ==
    (lastOp.op = "load" /\ lastOp.arg = "legacy") =>
        (ret = TRUE /\ rows_ = EmptyRows)

(***************************************************************************)
(* Claims about the UTXO queries (SpecUtxo).                               *)
(***************************************************************************)
AllOutputs(rs) ==
    UNION {{[point |-> Point(h, i - 1), value |-> rs[h].tx.outputs[i].value] :
               i \in DOMAIN rs[h].tx.outputs} : h \in DOMAIN rs}
AllPreviousOutputs(rs) ==
    UNION {{rs[h].tx.inputs[k].previous_output : k \in DOMAIN rs[h].tx.inputs} :
              h \in DOMAIN rs}
Elements(seq) == {seq[k] : k \in DOMAIN seq}

\* C9: get_utxos() returns, each once and with its value, exactly the
\* outputs of all rows whose output point no input of any row references;
\* nothing on an empty store.
C9_UtxosAreUnspentOutputs ==
    lastOp.op = "get_utxos" =>
        LET expected == {o \in AllOutputs(rows_) :
                            o.point \notin AllPreviousOutputs(rows_)}
        IN /\ Elements(ret) = expected
           /\ Len(ret) = Cardinality(expected)
           /\ (rows_ = EmptyRows => ret = << >>)

\* C9, its case: a store in which one output of a transaction is spent and
\* another output of the same transaction is not.
C9_Witness ==
    /\ lastOp.op = "get_utxos"
    /\ \E o \in Elements(ret) : o.point = Point(1, 1)
    /\ Point(1, 0) \in AllPreviousOutputs(rows_)
    /\ Len(ret) > 1

\* C10: get_utxos(addresses) never fails while the other thread inserts and
\* forgets rows (every utxo of raw still has its row when the filter runs),
\* and what it returns was an unspent output when raw was taken.
C10_FilterNeverFails ==
    /\ failure # AssertUtxoRow
    /\ (lastOp.op = "get_utxos(addresses)" /\ failure = NoFailure)
           => Elements(ret) \subseteq Elements(q_raw)

(***************************************************************************)
(* Claims about the store's mutators.                                      *)
(***************************************************************************)
\* C11: insert(tx, state) on a hash that has a row returns false and leaves
\* the store, that row included, as it was; on an absent hash it returns
\* true and adds exactly one row, with the given transaction and state,
\* block_height 0 and need_check false, every other row untouched: the store
\* holds one row per distinct hash inserted.
C11_InsertFirstWriterWins ==
    [][lastOp'.op = "insert" =>
         LET h == lastOp'.arg
         IN /\ Cardinality(DOMAIN rows_') = Cardinality(DOMAIN rows_ \cup {h})
            /\ IF h \in DOMAIN rows_
               THEN ret' = FALSE /\ rows_' = rows_
               ELSE /\ ret' = TRUE
                    /\ DOMAIN rows_' = DOMAIN rows_ \cup {h}
                    /\ \A x \in DOMAIN rows_ : rows_'[x] = rows_[x]
                    /\ rows_'[h].tx = Tx(h)
                    /\ rows_'[h].state = lastOp'.state
                    /\ rows_'[h].block_height = 0
                    /\ rows_'[h].need_check = FALSE]_vars

\* C11, its case: a transaction is inserted again, later and with another
\* state, and the row keeps the state and the timestamp of the first insert.
C11_Witness ==
    /\ lastOp.op = "insert"
    /\ ret = FALSE
    /\ rows_[lastOp.arg].state # lastOp.state
    /\ rows_[lastOp.arg].timestamp < now
    /\ Cardinality(DOMAIN rows_) > 1

(***************************************************************************)
(* Further claims about the updater (Spec).                                *)
(***************************************************************************)
\* C12: on_add(h) is emitted only by an operation that finds no row for h
\* and leaves one, and once in that operation; so between two on_add of the
\* same hash its row has been removed, whatever the interleaving of send(),
\* duplicate fetch completions and history replies.
C12_AddOncePerRow ==
    [][\A k \in SinkCalls(calls', "on_add") :
          LET h == calls'[k].arg
          IN /\ h \notin DOMAIN rows_
             /\ h \in DOMAIN rows_'
             /\ \A j \in SinkCalls(calls', "on_add") :
                   calls'[j].arg = h => j = k]_vars

\* C12, its case: a fetch_transaction completes for a hash whose row an
\* earlier completion or send() has already added, and on_add stays silent.
C12_Witness ==
    /\ IsCompletion(lastOp, "fetch_transaction", "done")
    /\ has_tx(rows_, lastOp.arg.hash)
    /\ SinkCalls(calls, "on_add") = {}
    /\ failure = NoFailure

\* on_send calls of a call list, by outcome and hash.
OnSend(cs, outcome, h) ==
    {k \in SinkCalls(cs, "on_send") : cs[k].arg = <<outcome, h>>}

\* C13: a broadcast that succeeds on a row tells the sink on_send(ok) once,
\* and the sink finds the row unconfirmed; a broadcast that fails tells the
\* sink on_send(error) once, and the sink finds no row; no on_send is made
\* otherwise.  A fetch_transaction_index success at height H on a row leaves
\* it confirmed with get_tx_height = H.
C13_StoreUpdatedBeforeOnSend ==
    [][LET h == lastOp'.arg.hash
       IN /\ \A k \in SinkCalls(calls', "on_send") :
                /\ "outcome" \in DOMAIN lastOp'
                /\ lastOp'.op = "broadcast_transaction"
                /\ calls'[k].arg[2] = h
                /\ IF calls'[k].arg[1] = "ok"
                   THEN /\ lastOp'.outcome = "done"
                        /\ has_tx(calls'[k].rows, h)
                        /\ calls'[k].rows[h].state = "unconfirmed"
                   ELSE /\ lastOp'.outcome = "error"
                        /\ ~has_tx(calls'[k].rows, h)
          /\ (IsCompletion(lastOp', "broadcast_transaction", "done")
                 /\ has_tx(rows_, h))
                => (/\ Cardinality(OnSend(calls', "ok", h)) = 1
                    /\ rows_'[h].state = "unconfirmed")
          /\ IsCompletion(lastOp', "broadcast_transaction", "error")
                => (/\ Cardinality(OnSend(calls', "error", h)) = 1
                    /\ ~has_tx(rows_', h))
          /\ (IsCompletion(lastOp', "fetch_transaction_index", "done")
                 /\ has_tx(rows_, h))
                => (/\ rows_'[h].state = "confirmed"
                    /\ get_tx_height(rows_', h) = lastOp'.value)]_vars

\* C13, its case: the broadcast of a sent transaction succeeds while the
\* index query for it is still pending.
C13_Witness ==
    /\ IsCompletion(lastOp, "broadcast_transaction", "done")
    /\ OnSend(calls, "ok", lastOp.arg.hash) # {}
    /\ has_tx(rows_, lastOp.arg.hash)
    /\ rows_[lastOp.arg.hash].state = "unconfirmed"
    /\ \E req \in Pending("fetch_transaction_index") : req.hash = lastOp.arg.hash

\* The requests whose error sets failed_.
FailOps == {"fetch_last_height", "fetch_unconfirmed_transaction",
            "address_fetch_history"}
IsError(o) == "outcome" \in DOMAIN o /\ o.outcome = "error"

\* C14: on_fail is emitted only by wakeup(), once, and exactly by the calls
\* that find failed_ set; wakeup leaves failed_ false; between two wakeups
\* failed_ becomes set exactly by an error of fetch_last_height,
\* fetch_unconfirmed_transaction or address_fetch_history, and no other
\* operation (the errors of fetch_transaction, fetch_transaction_index and
\* broadcast_transaction among them) changes it.
C14_FailReportedByWakeup ==
    [][/\ Cardinality(SinkCalls(calls', "on_fail")) =
             IF lastOp'.op = "wakeup" /\ failed_ THEN 1 ELSE 0
       /\ lastOp'.op = "wakeup" => failed_' = FALSE
       /\ lastOp'.op # "wakeup" =>
             failed_' = (failed_ \/ (IsError(lastOp') /\ lastOp'.op \in FailOps))]_vars

\* C14, its case: a wakeup reports a failure and clears the flag while
\* requests are pending.
C14_Witness ==
    /\ lastOp.op = "wakeup"
    /\ Cardinality(SinkCalls(calls, "on_fail")) = 1
    /\ failed_ = FALSE
    /\ inflight # EmptyBag

\* C15: the error completion of fetch_transaction(H) issues one request, a
\* fetch_unconfirmed_transaction(H) with the same want_inputs, emits no
\* on_quiet, leaves queued_queries_ (the fallback counted, the original
\* released) and failed_ as they were and the store untouched; the error
\* completion of the fallback sets failed_ and releases the query.
C15_MempoolFallback ==
    [][/\ IsCompletion(lastOp', "fetch_transaction", "error") =>
             /\ Len(calls') = 1
             /\ calls'[1].kind = "codec"
             /\ calls'[1].arg = Req("fetch_unconfirmed_transaction",
                                    lastOp'.arg.hash, lastOp'.arg.want_inputs,
                                    NoAddress)
             /\ inflight' = (inflight (-) SetToBag({lastOp'.arg}))
                                (+) SetToBag({calls'[1].arg})
             /\ queued_queries_ >= 1
             /\ queued_queries_' = queued_queries_
             /\ failed_' = failed_
             /\ rows_' = rows_
       /\ IsCompletion(lastOp', "fetch_unconfirmed_transaction", "error") =>
             /\ failed_' = TRUE
             /\ queued_queries_' = queued_queries_ - 1
             /\ CodecCalls(calls', "fetch_unconfirmed_transaction") = {}
             /\ CodecCalls(calls', "fetch_transaction") = {}]_vars

\* C15, its case: the only query in flight is a fetch_transaction that
\* wanted the inputs; it fails and the fallback takes its place.
C15_Witness ==
    /\ IsCompletion(lastOp, "fetch_transaction", "error")
    /\ lastOp.arg.want_inputs
    /\ queued_queries_ = 1
    /\ Pending("fetch_unconfirmed_transaction") # {}
    /\ SinkCalls(calls, "on_quiet") = {}

(***************************************************************************)
(* Claims about the polling schedule (SpecWake).                           *)
(***************************************************************************)
SetMin(S) == CHOOSE x \in S : \A y \in S : x <= y
HeightDue == period <= clock - last_wakeup_
AddressDue(a) == watch_rows_[a].poll_time <= clock - watch_rows_[a].last_check

\* C16: wakeup() issues fetch_last_height exactly when 30 s have passed
\* since last_wakeup_, and an address_fetch_history for exactly the watched
\* addresses whose interval has passed since last_check; it returns the
\* minimum of 30 s minus the time since the last height poll and, per
\* address, the interval (if just queried) or the interval minus the elapsed
\* time; the result is between 0 and 30 s and ends no later than the due
\* time of any poll.
C16_WakeupSchedule ==
    [][lastOp'.op = "wakeup" =>
         /\ Cardinality(CodecCalls(calls', "fetch_last_height")) =
               IF HeightDue THEN 1 ELSE 0
         /\ \A a \in DOMAIN watch_rows_ :
               Cardinality({k \in CodecCalls(calls', "address_fetch_history") :
                               calls'[k].arg.address = a}) =
                  IF AddressDue(a) THEN 1 ELSE 0
         /\ Cardinality(CodecCalls(calls', "address_fetch_history")) =
               Cardinality({a \in DOMAIN watch_rows_ : AddressDue(a)})
         /\ ret' = SetMin(
               {period - (IF HeightDue THEN 0 ELSE clock - last_wakeup_)}
               \cup {IF AddressDue(a)
                     THEN watch_rows_[a].poll_time
                     ELSE watch_rows_[a].poll_time
                             - (clock - watch_rows_[a].last_check) :
                     a \in DOMAIN watch_rows_})
         /\ 0 <= ret' /\ ret' <= period
         /\ clock + ret' <= last_wakeup_' + period
         /\ \A a \in DOMAIN watch_rows_' :
               clock + ret' <= watch_rows_'[a].last_check
                                  + watch_rows_'[a].poll_time]_vars

\* C16, its case: with two addresses watched, a wakeup between two height
\* polls queries one address, the other falls due shortly, and the host is
\* told to sleep less than either interval.
C16_Witness ==
    /\ lastOp.op = "wakeup"
    /\ DOMAIN watch_rows_ = WakeAddresses
    /\ Cardinality(CodecCalls(calls, "address_fetch_history")) = 1
    /\ CodecCalls(calls, "fetch_last_height") = {}
    /\ 0 < ret /\ ret < 10

(***************************************************************************)
(* Claims about the height poll and the rows' heights (Spec).              *)
(***************************************************************************)
\* C17: on_height is emitted once by a fetch_last_height reply whose height
\* differs from last_height_ and by nothing else; it carries the reply's
\* height, and last_height_ is that height when the sink is called and
\* afterwards; a reply equal to last_height_ makes no call and changes
\* neither the store nor the updater; last_height_ changes only with an
\* on_height, so two consecutive on_height carry different heights.
C17_OnHeightIffChanged ==
    [][/\ Cardinality(SinkCalls(calls', "on_height")) =
             IF /\ IsCompletion(lastOp', "fetch_last_height", "done")
                /\ lastOp'.value # last_height_
             THEN 1 ELSE 0
       /\ \A k \in SinkCalls(calls', "on_height") :
             /\ calls'[k].arg = lastOp'.value
             /\ calls'[k].arg # last_height_
             /\ calls'[k].last_height = calls'[k].arg
             /\ last_height_' = calls'[k].arg
       /\ SinkCalls(calls', "on_height") = {} => last_height_' = last_height_
       /\ (/\ IsCompletion(lastOp', "fetch_last_height", "done")
           /\ lastOp'.value = last_height_)
             => /\ calls' = << >>
                /\ rows_' = rows_
                /\ failed_' = failed_
                /\ queued_queries_' = queued_queries_
                /\ queued_get_indices_' = queued_get_indices_
                /\ inflight' = inflight (-) SetToBag({lastOp'.arg})]_vars

\* C17, its case: after the height has been reported once, the server
\* repeats it while a row is unconfirmed, and the reply is dropped.
C17_Witness ==
    /\ IsCompletion(lastOp, "fetch_last_height", "done")
    /\ lastOp.value = last_height_
    /\ last_height_ > 0
    /\ calls = << >>
    /\ \E h \in DOMAIN rows_ : rows_[h].state # "confirmed"

\* C18: every confirmed row has block_height > 0.
C18_ConfirmedHeightPositive ==
    \A h \in DOMAIN rows_ :
        rows_[h].state = "confirmed" => rows_[h].block_height > 0

\* C19: every row that is not confirmed has block_height = 0, the rows that
\* were confirmed earlier included.
C19_UnconfirmedHeightZero ==
    \A h \in DOMAIN rows_ :
        rows_[h].state # "confirmed" => rows_[h].block_height = 0

\* The height check_fork is run with by the operation that led to lastOp',
\* as a set: at_height(h) on a reply that differs from last_height_,
\* confirmed() on a row confirmed at another height, unconfirmed() on a
\* confirmed row.
CheckForkHeights ==
    IF IsCompletion(lastOp', "fetch_last_height", "done")
    THEN IF lastOp'.value # last_height_ THEN {lastOp'.value} ELSE {}
    ELSE IF /\ "outcome" \in DOMAIN lastOp'
            /\ lastOp'.op \in {"fetch_transaction_index", "broadcast_transaction"}
            /\ has_tx(rows_, lastOp'.arg.hash)
            /\ rows_[lastOp'.arg.hash].state = "confirmed"
    THEN IF IsCompletion(lastOp', "fetch_transaction_index", "done")
         THEN IF rows_[lastOp'.arg.hash].block_height # lastOp'.value
              THEN {rows_[lastOp'.arg.hash].block_height} ELSE {}
         ELSE IF IsCompletion(lastOp', "broadcast_transaction", "error")
         THEN {}
         ELSE {rows_[lastOp'.arg.hash].block_height}
    ELSE {}

\* C20: when an operation runs check_fork(height), every other row that is
\* confirmed at p, the highest confirmed block_height below height (0 if
\* none), has need_check set in the store afterwards, and the remaining
\* rows are as they were.
C20_CheckForkMarksRows ==
    [][\A height \in CheckForkHeights :
          \A h \in DOMAIN rows_ :
              (~IsCompletion(lastOp', "fetch_last_height", "done")
                  => h # lastOp'.arg.hash)
              => IF /\ rows_[h].state = "confirmed"
                    /\ rows_[h].block_height = prev_height(rows_, height)
                 THEN rows_'[h] = [rows_[h] EXCEPT !.need_check = TRUE]
                 ELSE rows_'[h] = rows_[h]]_vars

(***************************************************************************)
(* Claims about the updater's counters and the rows' life (Spec).          *)
(***************************************************************************)
\* The number of pending requests of the given kinds.
InFlight(ops) ==
    BagCardinality([req \in {r \in BagToSet(inflight) : r.op \in ops} |->
                       inflight[req]])

\* C21: queued_queries_ is the number of address_fetch_history,
\* fetch_transaction and fetch_unconfirmed_transaction requests issued and
\* not completed; it never wraps below 0, and it is 0 exactly when no such
\* request is pending.
C21_QueuedQueriesCountsPending ==
    /\ queued_queries_ = InFlight(QueryOps)
    /\ queued_queries_ # size_max
    /\ queued_queries_ >= 0
    /\ (queued_queries_ = 0) <=> (\A op \in QueryOps : Pending(op) = {})

\* C21, its case: a history query and a mempool fallback are pending
\* together with a third query.
C21_Witness ==
    /\ queued_queries_ = 3
    /\ Pending("address_fetch_history") # {}
    /\ Pending("fetch_unconfirmed_transaction") # {}

\* C22: a row that is unsent stays unsent until its own broadcast completes:
\* it becomes unconfirmed, by the success of a broadcast of its hash, or is
\* removed, by the error of one; no other operation, a
\* fetch_transaction_index completion in particular, changes its state.
C22_UnsentUntilBroadcast ==
    [][\A h \in DOMAIN rows_ :
          rows_[h].state = "unsent" =>
             \/ (h \in DOMAIN rows_' /\ rows_'[h].state = "unsent")
             \/ /\ IsCompletion(lastOp', "broadcast_transaction", "done")
                /\ lastOp'.arg.hash = h
                /\ h \in DOMAIN rows_'
                /\ rows_'[h].state = "unconfirmed"
             \/ /\ IsCompletion(lastOp', "broadcast_transaction", "error")
                /\ lastOp'.arg.hash = h
                /\ h \notin DOMAIN rows_']_vars

\* C23: the row-exists assertions of tx_db::confirmed and
\* tx_db::unconfirmed never fail.
C23_RowAssertionsHold ==
    failure \notin {AssertConfirmedRow, AssertUnconfirmedRow}

\* C24: a row with need_check set is confirmed.
C24_NeedCheckOnlyConfirmed ==
    \A h \in DOMAIN rows_ : rows_[h].need_check => rows_[h].state = "confirmed"

\* C25: the updater removes a row only while the row is unsent.
C25_ForgetOnlyUnsent ==
    [][\A h \in DOMAIN rows_ :
          h \notin DOMAIN rows_' => rows_[h].state = "unsent"]_vars

\* C26: a confirmed row becomes unconfirmed only by the error completion of
\* a fetch_transaction_index for its hash; a broadcast success leaves a
\* confirmed row confirmed.
C26_DemotedOnlyByIndexError ==
    [][\A h \in DOMAIN rows_ \cap DOMAIN rows_' :
          (rows_[h].state = "confirmed" /\ rows_'[h].state # "confirmed")
             => /\ IsCompletion(lastOp', "fetch_transaction_index", "error")
                /\ lastOp'.arg.hash = h
                /\ rows_'[h].state = "unconfirmed"]_vars

\* The codec completes one of the pending query requests.
QueryCompletes ==
    \/ HistoryDone \/ HistoryError
    \/ TxDone \/ TxError
    \/ TxMemDone \/ TxMemError

\* C27: when the host makes no further call and every request completes,
\* queued_queries_ returns to 0: no completion, an error completion in
\* particular, leaves the counter above 0 with no query completion left to
\* bring it down.
C27_QueriesDrain ==
    queued_queries_ > 0 => ENABLED QueryCompletes

\* C28: when every fetch_transaction_index request completes and the
\* server's height stops changing, the index sweeps end.  So the answer to
\* an index query never puts the updater back where it was while the query
\* was pending (same store, same counters, same pending requests): from
\* there the same answer would do the same again, without end.
C28_IndexSweepsEnd ==
    [][IsCompletion(lastOp', "fetch_transaction_index", "done")
          => <<rows_, last_height_, failed_, queued_queries_,
               queued_get_indices_, inflight, failure>>'
                # <<rows_, last_height_, failed_, queued_queries_,
                    queued_get_indices_, inflight, failure>>]_vars

\* The rows foreach_forked visits, and the index queries of a sweep among
\* the calls of an operation: those made from inside a foreach callback for
\* a row that is confirmed (foreach_unconfirmed visits the other rows, and
\* the completion of a transaction fetch calls get_index with the store
\* unlocked).
Forked(rows) ==
    {h \in DOMAIN rows : rows[h].state = "confirmed" /\ rows[h].need_check}
SweepCalls(cs) ==
    {k \in CodecCalls(cs, "fetch_transaction_index") :
        cs[k].locked /\ cs[k].rows[cs[k].arg.hash].state = "confirmed"}
CallsQueueGetIndices(o, height) ==
    \/ o.op = "start"
    \/ IsCompletion(o, "fetch_last_height", "done") /\ o.value # height
    \/ IsCompletion(o, "fetch_transaction_index", "done")
    \/ IsCompletion(o, "fetch_transaction_index", "error")

\* C29: queued_get_indices_ is the number of pending
\* fetch_transaction_index requests; queue_get_indices dispatches nothing
\* while one is pending, so after a sweep the pending index requests are
\* those of the sweep, exactly one per confirmed row with need_check; and
\* when none is pending it does sweep, so a call of queue_get_indices leaves
\* a forked row unqueried only with an index request pending.
C29_SweepOnlyWhenDrained ==
    /\ [](Running =>
            /\ queued_get_indices_ = InFlight({"fetch_transaction_index"})
            /\ queued_get_indices_ # size_max)
    /\ [][LET sweep == SweepCalls(calls')
              pending == InFlight({"fetch_transaction_index"})'
          IN /\ sweep # {} =>
                   /\ CallsQueueGetIndices(lastOp', last_height_)
                   /\ {calls'[k].arg.hash : k \in sweep} = Forked(rows_')
                   /\ Cardinality(sweep) = Cardinality(Forked(rows_'))
                   /\ pending = Cardinality(sweep)
             /\ (/\ sweep = {}
                 /\ CallsQueueGetIndices(lastOp', last_height_)
                 /\ Running')
                   => (pending > 0 \/ Forked(rows_') = {})]_vars

\* C29, its case: an index query completes while another is pending, a
\* confirmed row has need_check, and no sweep starts.
C29_Witness ==
    /\ IsCompletion(lastOp, "fetch_transaction_index", "done")
    /\ Running
    /\ Forked(rows_) # {}
    /\ queued_get_indices_ > 0
    /\ CodecCalls(calls, "fetch_transaction_index") = {}

(***************************************************************************)
(* Claims about the transaction fetches (SpecFetch).                       *)
(***************************************************************************)
TxFetchOps == {"fetch_transaction", "fetch_unconfirmed_transaction"}
FetchCalls(cs) ==
    {k \in DOMAIN cs : cs[k].kind = "codec" /\ cs[k].op \in TxFetchOps}
\* The transactions whose outputs the inputs of transaction h spend.
Producers(h) ==
    {Tx(h).inputs[i].previous_output.hash : i \in DOMAIN Tx(h).inputs}
\* The transactions a history names.
HistoryHashes(history) ==
    {history[i].output : i \in DOMAIN history}
       \cup ({history[i].spend : i \in DOMAIN history} \ {null_hash})

\* C30: the fetches an operation dispatches.  The reply to an address
\* history fetches, with want_inputs, transactions the history names, and,
\* without, producers of the inputs of those it finds stored.  The
\* transaction returned to a fetch with want_inputs fetches producers of its
\* inputs, each without want_inputs, at most one per input.  The transaction
\* returned to a fetch without want_inputs fetches nothing.  A failed
\* fetch_transaction retries the same transaction, with the same flag, in
\* the mempool, and a failed mempool fetch fetches nothing.  No other
\* operation fetches a transaction.
C30_FetchDepthBounded ==
    [][LET o == lastOp'
           fetches == FetchCalls(calls')
       IN IF IsCompletion(o, "address_fetch_history", "done")
          THEN /\ \A k \in fetches :
                     /\ calls'[k].op = "fetch_transaction"
                     /\ IF calls'[k].arg.want_inputs
                        THEN calls'[k].arg.hash \in HistoryHashes(o.value)
                        ELSE \E h \in HistoryHashes(o.value) :
                                /\ has_tx(rows_, h)
                                /\ calls'[k].arg.hash \in Producers(h)
               /\ Cardinality({k \in fetches : calls'[k].arg.want_inputs})
                     <= 2 * Len(o.value)
          ELSE IF o.op \in TxFetchOps /\ IsCompletion(o, o.op, "done")
          THEN IF o.arg.want_inputs
               THEN /\ \A k \in fetches :
                          /\ calls'[k].op = "fetch_transaction"
                          /\ ~calls'[k].arg.want_inputs
                          /\ calls'[k].arg.hash \in Producers(o.arg.hash)
                    /\ Cardinality(fetches) <= Len(Tx(o.arg.hash).inputs)
               ELSE fetches = {}
          ELSE IF IsCompletion(o, "fetch_transaction", "error")
          THEN /\ Cardinality(fetches) = 1
               /\ \A k \in fetches :
                     calls'[k].arg =
                        [o.arg EXCEPT !.op = "fetch_unconfirmed_transaction"]
          ELSE fetches = {}]_vars

\* C30, its case: transaction 2, fetched without want_inputs as the
\* producer of an input of transaction 3, arrives while the producer of its
\* own input, transaction 1, is not stored, and nothing is fetched.
C30_Witness ==
    /\ IsCompletion(lastOp, "fetch_transaction", "done")
    /\ lastOp.arg.hash = 2
    /\ ~lastOp.arg.want_inputs
    /\ has_tx(rows_, 3)
    /\ ~has_tx(rows_, 1)
    /\ FetchCalls(calls) = {}

(***************************************************************************)
(* Claims about the heights of the confirmed rows.                         *)
(***************************************************************************)
\* C31: once the updater has been started, whenever no codec request is
\* pending, every confirmed row has block_height <= last_height_.
C31_SteadyHeights ==
    (started /\ Running /\ inflight = EmptyBag)
       => \A h \in DOMAIN rows_ :
             rows_[h].state = "confirmed" => rows_[h].block_height <= last_height_

\* C32: confirmed(hash, H) on a row that is confirmed at H changes nothing
\* and does not run check_fork; on a row confirmed at another height it
\* runs check_fork once, with the row's old height and while the row still
\* has it, and then stores H, the row otherwise as it was; in both cases the
\* row keeps its need_check.
C32_ConfirmedIdempotent ==
    [][lastOp'.op = "confirmed" =>
          LET tx_hash == lastOp'.arg
              block_height == lastOp'.height
              row == rows_[tx_hash]
          IN row.state = "confirmed" =>
                /\ row.block_height = block_height =>
                      /\ rows_' = rows_
                      /\ ret' = << >>
                /\ row.block_height # block_height =>
                      /\ Len(ret') = 1
                      /\ ret'[1].height = row.block_height
                      /\ ret'[1].rows[tx_hash].block_height = row.block_height
                      /\ rows_' = [rows_ EXCEPT
                                     ![tx_hash].block_height = block_height]
                /\ rows_'[tx_hash].need_check = row.need_check]_vars

\* C32, its case: a flagged row confirmed at one height has been confirmed
\* at another; check_fork has run and the row is still flagged.
C32_Witness ==
    /\ lastOp.op = "confirmed"
    /\ Len(ret) = 1
    /\ ret[1].height # lastOp.height
    /\ rows_[lastOp.arg].block_height = lastOp.height
    /\ rows_[lastOp.arg].need_check

====
